---- MODULE Spec2Model ----
(***************************************************************************)
(* File actions of the storage application: the upload saga over the blob  *)
(* store (storage) and the metadata store (databases), file deletion,      *)
(* renaming and sharing, the query builder behind getFiles, and the file   *)
(* classification getFileType.                                             *)
(*                                                                         *)
(* Strings the code takes apart (file names, sort strings, search text)    *)
(* are sequences of one-character strings; identifiers, e-mail addresses   *)
(* and type names, which the code only compares, are plain strings.        *)
(***************************************************************************)
EXTENDS Integers, Sequences, FiniteSets, TLC

\* ------------------------------------------------------------------ bounds
NumUploads == 2
NumDeletes == 1
NumAccounts == 2
MaxNameLen == 4
MaxSortLen == 5
MaxFiles == 3
MaxSessions == 2
MaxDropped == 2

\* ----------------------------------------------------------------- strings
RECURSIVE split(_, _)
\* String.prototype.split(separator): the pieces between the separators
split(str, sep) ==
    IF \E i \in 1..Len(str) : str[i] = sep
    THEN LET i == CHOOSE k \in 1..Len(str) :
                      /\ str[k] = sep
                      /\ \A j \in 1..(k - 1) : str[j] # sep
         IN  <<SubSeq(str, 1, i - 1)>> \o split(SubSeq(str, i + 1, Len(str)), sep)
    ELSE <<str>>

\* Array.prototype.pop() as used on the fresh array: its last element
pop(arr) == arr[Len(arr)]

toLowerCaseChar(c) ==
    CASE c = "A" -> "a"
      [] c = "B" -> "b"
      [] c = "C" -> "c"
      [] c = "D" -> "d"
      [] c = "E" -> "e"
      [] c = "F" -> "f"
      [] c = "G" -> "g"
      [] c = "H" -> "h"
      [] c = "I" -> "i"
      [] c = "J" -> "j"
      [] c = "K" -> "k"
      [] c = "L" -> "l"
      [] c = "M" -> "m"
      [] c = "N" -> "n"
      [] c = "O" -> "o"
      [] c = "P" -> "p"
      [] c = "Q" -> "q"
      [] c = "R" -> "r"
      [] c = "S" -> "s"
      [] c = "T" -> "t"
      [] c = "U" -> "u"
      [] c = "V" -> "v"
      [] c = "W" -> "w"
      [] c = "X" -> "x"
      [] c = "Y" -> "y"
      [] c = "Z" -> "z"
      [] OTHER -> c

\* String.prototype.toLowerCase()
toLowerCase(str) == [i \in 1..Len(str) |-> toLowerCaseChar(str[i])]

\* String.prototype.includes / substring containment
includes(str, sub) ==
    \E i \in 0..(Len(str) - Len(sub)) : SubSeq(str, i + 1, i + Len(sub)) = sub

\* ------------------------------------------------------------- getFileType
documentExtensions ==
    { <<"p", "d", "f">>, <<"d", "o", "c">>, <<"d", "o", "c", "x">>,
      <<"t", "x", "t">>, <<"x", "l", "s">>, <<"x", "l", "s", "x">>,
      <<"c", "s", "v">>, <<"r", "t", "f">>, <<"o", "d", "s">>,
      <<"p", "p", "t">>, <<"o", "d", "p">>, <<"m", "d">>,
      <<"h", "t", "m", "l">>, <<"h", "t", "m">>, <<"e", "p", "u", "b">>,
      <<"p", "a", "g", "e", "s">>, <<"f", "i", "g">>, <<"p", "s", "d">>,
      <<"a", "i">>, <<"i", "n", "d", "d">>, <<"x", "d">>,
      <<"s", "k", "e", "t", "c", "h">>, <<"a", "f", "d", "e", "s", "i", "g", "n">>, <<"a", "f", "p", "h", "o", "t", "o">> }

imageExtensions ==
    { <<"j", "p", "g">>, <<"j", "p", "e", "g">>, <<"p", "n", "g">>, <<"g", "i", "f">>,
      <<"b", "m", "p">>, <<"s", "v", "g">>, <<"w", "e", "b", "p">> }

videoExtensions ==
    { <<"m", "p", "4">>, <<"a", "v", "i">>, <<"m", "o", "v">>, <<"m", "k", "v">>,
      <<"w", "e", "b", "m">> }

audioExtensions ==
    { <<"m", "p", "3">>, <<"w", "a", "v">>, <<"o", "g", "g">>, <<"f", "l", "a", "c">> }

\* getFileType without the toLowerCase() call
getFileType_caseSensitive(fileName) ==
    LET extension == pop(split(fileName, "."))
    IN  IF extension = <<>> THEN [type |-> "other", extension |-> <<>>]
        ELSE IF extension \in documentExtensions
             THEN [type |-> "document", extension |-> extension]
        ELSE IF extension \in imageExtensions
             THEN [type |-> "image", extension |-> extension]
        ELSE IF extension \in videoExtensions
             THEN [type |-> "video", extension |-> extension]
        ELSE IF extension \in audioExtensions
             THEN [type |-> "audio", extension |-> extension]
        ELSE [type |-> "other", extension |-> extension]

getFileType(fileName) ==
    LET extension == toLowerCase(pop(split(fileName, ".")))
    IN  IF extension = <<>> THEN [type |-> "other", extension |-> <<>>]
        ELSE IF extension \in documentExtensions
             THEN [type |-> "document", extension |-> extension]
        ELSE IF extension \in imageExtensions
             THEN [type |-> "image", extension |-> extension]
        ELSE IF extension \in videoExtensions
             THEN [type |-> "video", extension |-> extension]
        ELSE IF extension \in audioExtensions
             THEN [type |-> "audio", extension |-> extension]
        ELSE [type |-> "other", extension |-> extension]

\* ------------------------------------------------------------- environment
\* user documents of the users collection (what getCurrentUser returns)
Users ==
    { [id |-> "u1", email |-> "u1@x.com", accountId |-> "acc1"],
      [id |-> "u2", email |-> "u2@x.com", accountId |-> "acc2"] }

\* files a user may drop: name and size in bytes
Files ==
    { [name |-> <<"a", ".", "p", "d", "f">>, size |-> 10],
      [name |-> <<"b", ".", "J", "P", "G">>, size |-> 20] }

\* arguments the callers pass to renameFile and updateFileUsers
RenameArgs == { [name |-> <<"c">>, extension |-> <<"p", "n", "g">>] }
EmailLists == { <<>>, <<"u2@x.com">> }

\* arguments the callers pass to getFiles
TypeLists   == { <<>>, <<"image">> }
SearchTexts == { <<>>, <<"a">> }
SortStrings ==
    { <<"$", "c", "r", "e", "a", "t", "e", "d", "A", "t", "-", "d", "e", "s", "c">>,
      <<"s", "i", "z", "e", "-", "a", "s", "c">> }
\* an optional number: <<>> when the argument is absent, <<n>> when given
Limits      == { <<>>, <<1>> }

UploadProcs == 1..NumUploads
DeleteProcs == 1..NumDeletes
AccountProcs == 1..NumAccounts
\* identifiers ID.unique() can hand out
Ids         == 1..NumUploads

\* the value of a variable that was never assigned
undefined == <<"undefined">>

\* the errors the two stores reject a call with
BlobWriteError     == "BlobWriteError"
BlobDeleteError    == "BlobDeleteError"
MetadataWriteError == "MetadataWriteError"
MetadataDeleteError == "MetadataDeleteError"
MetadataReadError  == "MetadataReadError"
UserNotFound       == "User not found"

VARIABLES
    storage,      \* blob store: the $id of every file in the bucket
    databases,    \* files collection: document $id -> document
    nextFileId,   \* ID.unique() for storage.createFile
    nextDocId,    \* ID.unique() for databases.createDocument
    upload,       \* uploadFile executions
    delete,       \* deleteFile executions
    getFilesCall, \* the getFiles execution
    fileName,     \* input of the classification run
    fileType,     \* result of the classification run
    queryArgs,    \* arguments of the createQueries run
    builtQueries, \* result of the createQueries run
    usage,        \* the getTotalSpaceUsed execution
    cookie,       \* the browser's appwrite-session cookie
    sessions,     \* account service: secret of each live session -> account
    nextSecret,   \* the secret of the next session created
    usersCollection, \* users collection: the user documents
    otps,         \* the one-time passwords sent
    page,         \* what the last request for a protected page gave
    signOut,      \* the last signOutUser execution
    authForm,     \* state of the sign-in form
    createAccountCalls, \* createAccount executions
    uploader      \* the FileUploader component and its onDrop execution

vars == <<storage, databases, nextFileId, nextDocId, upload, delete, getFilesCall,
          fileName, fileType, queryArgs, builtQueries, usage, cookie, sessions,
          nextSecret, usersCollection, otps, page, signOut, authForm,
          createAccountCalls, uploader>>
storeVars == <<storage, databases, nextFileId, nextDocId>>
classifyVars == <<fileName, fileType>>
queryVars == <<queryArgs, builtQueries>>
usageVars == <<usage>>
uploaderVars == <<uploader>>
authVars == <<cookie, sessions, nextSecret, usersCollection, otps, page, signOut,
              authForm, createAccountCalls>>
fileVars == <<storeVars, upload, delete, getFilesCall>>
\* what the file actions never touch
otherVars == <<classifyVars, queryVars, usageVars, uploaderVars, authVars>>

\* ------------------------------------------------------------- handleError
\* console.log(error, message); throw error
\* handleError that logs and does not rethrow: the caller's catch block ends
\* and the function returns undefined
handleError_logOnly(exec, error, message) ==
    [exec EXCEPT !.log = Append(@, <<error, message>>), !.pc = "returned"]

handleError(exec, error, message) ==
    [exec EXCEPT !.log = Append(@, <<error, message>>), !.thrown = error,
                 !.pc = "threw"]

constructFileUrl(bucketFileId) == <<"/storage/buckets/files/", bucketFileId, "/view">>

\* ----------------------------------------------------------- createQueries
\* truthiness of an optional number: absent and 0 are falsy
truthy(limit) == limit # <<>> /\ limit[1] # 0

\* createQueries whose list starts empty instead of with the Query.or
createQueries_noAccess(currentUser, types, searchText, sort, limit) ==
    LET access ==
            << [method |-> "or", attribute |-> "",
                values |-> << [method |-> "equal", attribute |-> "owner",
                               values |-> <<currentUser.id>>],
                              [method |-> "contains", attribute |-> "users",
                               values |-> <<currentUser.email>>] >>] >>
        byType ==
            IF Len(types) > 0
            THEN << [method |-> "equal", attribute |-> "type", values |-> types] >>
            ELSE <<>>
        byName ==
            IF searchText # <<>>
            THEN << [method |-> "contains", attribute |-> "name",
                     values |-> <<searchText>>] >>
            ELSE <<>>
        capped ==
            IF truthy(limit)
            THEN << [method |-> "limit", attribute |-> "", values |-> limit] >>
            ELSE <<>>
        parts   == split(sort, "-")
        sortBy  == parts[1]
        orderBy == IF Len(parts) >= 2 THEN parts[2] ELSE undefined
        ordered ==
            IF sort # <<>>
            THEN << [method |-> IF orderBy = <<"a", "s", "c">>
                                THEN "orderAsc" ELSE "orderDesc",
                     attribute |-> sortBy, values |-> <<>>] >>
            ELSE <<>>
    IN  byType \o byName \o capped \o ordered

\* createQueries that pushes Query.orderDesc whatever orderBy is
createQueries_alwaysDesc(currentUser, types, searchText, sort, limit) ==
    LET access ==
            << [method |-> "or", attribute |-> "",
                values |-> << [method |-> "equal", attribute |-> "owner",
                               values |-> <<currentUser.id>>],
                              [method |-> "contains", attribute |-> "users",
                               values |-> <<currentUser.email>>] >>] >>
        byType ==
            IF Len(types) > 0
            THEN << [method |-> "equal", attribute |-> "type", values |-> types] >>
            ELSE <<>>
        byName ==
            IF searchText # <<>>
            THEN << [method |-> "contains", attribute |-> "name",
                     values |-> <<searchText>>] >>
            ELSE <<>>
        capped ==
            IF truthy(limit)
            THEN << [method |-> "limit", attribute |-> "", values |-> limit] >>
            ELSE <<>>
        parts   == split(sort, "-")
        sortBy  == parts[1]
        orderBy == IF Len(parts) >= 2 THEN parts[2] ELSE undefined
        ordered ==
            IF sort # <<>>
            THEN << [method |-> "orderDesc",
                     attribute |-> sortBy, values |-> <<>>] >>
            ELSE <<>>
    IN  access \o byType \o byName \o capped \o ordered

\* createQueries that pushes the type predicate without testing types.length
createQueries_typesAlways(currentUser, types, searchText, sort, limit) ==
    LET access ==
            << [method |-> "or", attribute |-> "",
                values |-> << [method |-> "equal", attribute |-> "owner",
                               values |-> <<currentUser.id>>],
                              [method |-> "contains", attribute |-> "users",
                               values |-> <<currentUser.email>>] >>] >>
        byType ==
            << [method |-> "equal", attribute |-> "type", values |-> types] >>
        byName ==
            IF searchText # <<>>
            THEN << [method |-> "contains", attribute |-> "name",
                     values |-> <<searchText>>] >>
            ELSE <<>>
        capped ==
            IF truthy(limit)
            THEN << [method |-> "limit", attribute |-> "", values |-> limit] >>
            ELSE <<>>
        parts   == split(sort, "-")
        sortBy  == parts[1]
        orderBy == IF Len(parts) >= 2 THEN parts[2] ELSE undefined
        ordered ==
            IF sort # <<>>
            THEN << [method |-> IF orderBy = <<"a", "s", "c">>
                                THEN "orderAsc" ELSE "orderDesc",
                     attribute |-> sortBy, values |-> <<>>] >>
            ELSE <<>>
    IN  access \o byType \o byName \o capped \o ordered

createQueries(currentUser, types, searchText, sort, limit) ==
    LET access ==
            << [method |-> "or", attribute |-> "",
                values |-> << [method |-> "equal", attribute |-> "owner",
                               values |-> <<currentUser.id>>],
                              [method |-> "contains", attribute |-> "users",
                               values |-> <<currentUser.email>>] >>] >>
        byType ==
            IF Len(types) > 0
            THEN << [method |-> "equal", attribute |-> "type", values |-> types] >>
            ELSE <<>>
        byName ==
            IF searchText # <<>>
            THEN << [method |-> "contains", attribute |-> "name",
                     values |-> <<searchText>>] >>
            ELSE <<>>
        capped ==
            IF truthy(limit)
            THEN << [method |-> "limit", attribute |-> "", values |-> limit] >>
            ELSE <<>>
        parts   == split(sort, "-")
        sortBy  == parts[1]
        orderBy == IF Len(parts) >= 2 THEN parts[2] ELSE undefined
        ordered ==
            IF sort # <<>>
            THEN << [method |-> IF orderBy = <<"a", "s", "c">>
                                THEN "orderAsc" ELSE "orderDesc",
                     attribute |-> sortBy, values |-> <<>>] >>
            ELSE <<>>
    IN  access \o byType \o byName \o capped \o ordered

\* ----------------------------------------------------------- listDocuments
Range(seq) == { seq[i] : i \in 1..Len(seq) }

\* one filter predicate against one document
matchesLeaf(doc, q) ==
    CASE q.method = "equal" /\ q.attribute = "owner" -> doc.owner \in Range(q.values)
      [] q.method = "equal" /\ q.attribute = "type"  -> doc.type \in Range(q.values)
      [] q.method = "contains" /\ q.attribute = "users" ->
             Range(q.values) \cap Range(doc.users) # {}
      [] q.method = "contains" /\ q.attribute = "name" ->
             \E v \in Range(q.values) : includes(doc.name, v)
      [] OTHER -> FALSE

matches(doc, q) ==
    IF q.method = "or" THEN \E sub \in Range(q.values) : matchesLeaf(doc, sub)
    ELSE matchesLeaf(doc, q)

isFilter(q) == q.method \in {"or", "equal", "contains"}
isOrder(q)  == q.method \in {"orderAsc", "orderDesc"}

\* the value a document is ordered by; documents are created in $id order
sortKey(doc, attribute) ==
    IF attribute = <<"s", "i", "z", "e">> THEN doc.size ELSE doc.id

\* the documents matching every filter, in the requested order, cut at the limit
listDocuments(collection, queries) ==
    LET found  == { id \in DOMAIN collection :
                      \A i \in 1..Len(queries) :
                          isFilter(queries[i]) => matches(collection[id], queries[i]) }
        orders == SelectSeq(queries, isOrder)
        before(a, b) ==
            IF orders = <<>> THEN a < b
            ELSE LET ka == sortKey(collection[a], orders[1].attribute)
                     kb == sortKey(collection[b], orders[1].attribute)
                 IN  IF ka = kb THEN a < b
                     ELSE IF orders[1].method = "orderAsc" THEN ka < kb ELSE ka > kb
        sorted == CHOOSE s \in [1..Cardinality(found) -> found] :
                      \A i, j \in 1..Cardinality(found) : i < j => before(s[i], s[j])
        limits == SelectSeq(queries, LAMBDA q : q.method = "limit")
        n      == IF limits = <<>> THEN Cardinality(found)
                  ELSE IF limits[1].values[1] < Cardinality(found)
                       THEN limits[1].values[1] ELSE Cardinality(found)
    IN  [i \in 1..n |-> collection[sorted[i]]]

\* -------------------------------------------------------------- initial state
noFile       == [name |-> <<>>, size |-> 0]
noBucketFile == [id |-> 0, name |-> <<>>, sizeOriginal |-> 0]
noDocument   == [id |-> 0]
noFileType   == [type |-> "undefined", extension |-> <<>>]

idleUpload ==
    [pc |-> "idle", file |-> noFile, ownerId |-> "", accountId |-> "",
     bucketFile |-> noBucketFile, error |-> "none", deleteFileCalls |-> <<>>,
     log |-> <<>>, thrown |-> "none", returned |-> noDocument]

idleDelete ==
    [pc |-> "idle", fileId |-> 0, bucketFileId |-> 0, deletedFile |-> FALSE,
     log |-> <<>>, thrown |-> "none", returned |-> "none"]

noUser       == [id |-> "", email |-> "", accountId |-> ""]
noArgs       == [types |-> <<>>, searchText |-> <<>>, sort |-> <<>>, limit |-> <<>>]

idleGetFiles ==
    [pc |-> "idle", currentUser |-> noUser, args |-> noArgs, queries |-> <<>>,
     log |-> <<>>, thrown |-> "none", returned |-> <<>>]

noQueryArgs ==
    [currentUser |-> noUser, types |-> <<>>, searchText |-> <<>>, sort |-> <<>>,
     limit |-> <<>>]

noTotalSpace == [used |-> -1]

idleUsage ==
    [pc |-> "idle", files |-> <<>>, log |-> <<>>, thrown |-> "none",
     returned |-> noTotalSpace]

\* no createQueries run and no getTotalSpaceUsed call is under way
QueriesIdle ==
    /\ queryArgs = noQueryArgs
    /\ builtQueries = <<>>

UsageIdle == usage = idleUsage

\* useState([]), and no onDrop under way
idleUploader ==
    [pc |-> "idle", acceptedFiles |-> <<>>, files |-> <<>>, toasts |-> <<>>,
     uploadFileCalls |-> <<>>, thrown |-> "none"]

UploaderIdle == uploader = idleUploader

\* the value JavaScript's null is modelled by, where an id is expected
null == "null"

\* getUserByEmail and getCurrentUser returning null or undefined
noDocumentFound == [id |-> null, email |-> null, accountId |-> null]

idlePage ==
    [outcome |-> "none", location |-> "", kind |-> "none", currentUser |-> noUser,
     logged |-> "none", rendered |-> {}]

idleSignOut == [pc |-> "idle", log |-> <<>>, thrown |-> "none", redirect |-> "none"]

\* useState(false), useState(""), useState(null); the e-mail field is empty
idleAuthForm ==
    [isLoading |-> FALSE, errorMessage |-> "", accountId |-> null, email |-> ""]

idleCreateAccount ==
    [pc |-> "idle", email |-> "", existingUser |-> noDocumentFound,
     accountId |-> null, log |-> <<>>, thrown |-> "none", returned |-> null]

\* nobody is signed in and every user has a user document
AuthIdle ==
    /\ cookie = <<>>
    /\ sessions = <<>>
    /\ nextSecret = 1
    /\ usersCollection = Users
    /\ otps = {}
    /\ page = idlePage
    /\ signOut = idleSignOut
    /\ authForm = idleAuthForm
    /\ createAccountCalls = [a \in AccountProcs |-> idleCreateAccount]

StoresInit ==
    /\ storage = {}
    /\ databases = <<>>
    /\ nextFileId = 1
    /\ nextDocId = 1
    /\ upload = [p \in UploadProcs |-> idleUpload]
    /\ delete = [d \in DeleteProcs |-> idleDelete]
    /\ getFilesCall = idleGetFiles

Init ==
    /\ StoresInit
    /\ fileName = <<>>
    /\ fileType = noFileType
    /\ QueriesIdle
    /\ UsageIdle
    /\ UploaderIdle
    /\ AuthIdle

\* an execution ends by throwing: its arguments go out of scope; what it
\* logged, what it asked the blob store to delete, the blob it stored and the
\* error it caught stay on record
exit(exec) ==
    [exec EXCEPT !.file = noFile, !.ownerId = "", !.accountId = ""]

\* executions are numbered in the order their calls are made
started(execs, n) == IF n = 1 THEN TRUE ELSE execs[n - 1].pc # "idle"

\* ------------------------------------------------------------------ uploadFile
\* the document with ownerId and accountId taking each other's place
fileDocument_ownerSwapped(bucketFile, ownerId, accountId) ==
    [type         |-> getFileType(bucketFile.name).type,
     name         |-> bucketFile.name,
     url          |-> constructFileUrl(bucketFile.id),
     extension    |-> getFileType(bucketFile.name).extension,
     size         |-> bucketFile.sizeOriginal,
     owner        |-> accountId,
     accountId    |-> ownerId,
     users        |-> <<>>,
     bucketFileId |-> bucketFile.id]

\* the document uploadFile builds from the stored file
fileDocument(bucketFile, ownerId, accountId) ==
    [type         |-> getFileType(bucketFile.name).type,
     name         |-> bucketFile.name,
     url          |-> constructFileUrl(bucketFile.id),
     extension    |-> getFileType(bucketFile.name).extension,
     size         |-> bucketFile.sizeOriginal,
     owner        |-> ownerId,
     accountId    |-> accountId,
     users        |-> <<>>,
     bucketFileId |-> bucketFile.id]

\* storage.createFile resolves: the blob is in the bucket under a fresh id
uploadFileCreateFile(p) ==
    /\ upload[p].pc = "idle"
    /\ started(upload, p)
    /\ \E file \in Files, user \in Users :
         upload' = [upload EXCEPT ![p] =
            [@ EXCEPT !.pc = "createDocument", !.file = file,
                      !.ownerId = user.id, !.accountId = user.accountId,
                      !.bucketFile = [id |-> nextFileId, name |-> file.name,
                                      sizeOriginal |-> file.size]]]
    /\ storage' = storage \cup {nextFileId}
    /\ nextFileId' = nextFileId + 1
    /\ UNCHANGED <<databases, nextDocId, delete, getFilesCall, otherVars>>

\* an outer catch that also asks the blob store to delete the new file
uploadFileCreateFileFails_compensating(p) ==
    /\ upload[p].pc = "idle"
    /\ started(upload, p)
    /\ upload' = [upload EXCEPT ![p] =
          exit(handleError([@ EXCEPT !.deleteFileCalls =
                                 Append(@, [fileId |-> nextFileId,
                                            outcome |-> "resolved"])],
                           BlobWriteError, "Failed to upload file"))]
    /\ UNCHANGED <<storeVars, delete, getFilesCall, otherVars>>

\* storage.createFile rejects: the outer catch logs and rethrows
uploadFileCreateFileFails(p) ==
    /\ upload[p].pc = "idle"
    /\ started(upload, p)
    /\ upload' = [upload EXCEPT ![p] =
          exit(handleError(@, BlobWriteError, "Failed to upload file"))]
    /\ UNCHANGED <<storeVars, delete, getFilesCall, otherVars>>

\* databases.createDocument resolves: revalidatePath, return the new document
uploadFileCreateDocument(p) ==
    /\ upload[p].pc = "createDocument"
    /\ LET newFile == [id |-> nextDocId] @@
                      fileDocument(upload[p].bucketFile, upload[p].ownerId,
                                   upload[p].accountId)
       IN  /\ databases' = (nextDocId :> newFile) @@ databases
           /\ upload' = [upload EXCEPT ![p] =
                            [@ EXCEPT !.pc = "returned", !.returned = newFile]]
    /\ nextDocId' = nextDocId + 1
    /\ UNCHANGED <<storage, nextFileId, delete, getFilesCall, otherVars>>

\* the .catch handler without its storage.deleteFile call
uploadFileCreateDocumentFails_noCompensation(p) ==
    /\ upload[p].pc = "createDocument"
    /\ upload' = [upload EXCEPT ![p] =
          LET inner == handleError([@ EXCEPT !.error = MetadataWriteError],
                                   MetadataWriteError, "Failed to create file document")
          IN  exit(handleError(inner, inner.thrown, "Failed to upload file"))]
    /\ UNCHANGED <<storeVars, delete, getFilesCall, otherVars>>

\* databases.createDocument rejects: the .catch handler starts
uploadFileCreateDocumentFails(p) ==
    /\ upload[p].pc = "createDocument"
    /\ upload' = [upload EXCEPT ![p] =
                     [@ EXCEPT !.pc = "catch", !.error = MetadataWriteError]]
    /\ UNCHANGED <<storeVars, delete, getFilesCall, otherVars>>

\* a .catch handler that deletes the blob created last by any execution, as
\* if bucketFile were shared between the executions
uploadFileCompensate_sharedBucketFile(p) ==
    /\ upload[p].pc = "catch"
    /\ storage' = storage \ {nextFileId - 1}
    /\ upload' = [upload EXCEPT ![p] =
          LET called == [@ EXCEPT !.deleteFileCalls =
                            Append(@, [fileId |-> nextFileId - 1,
                                       outcome |-> "resolved"])]
              inner  == handleError(called, upload[p].error,
                                    "Failed to create file document")
          IN  exit(handleError(inner, inner.thrown, "Failed to upload file"))]
    /\ UNCHANGED <<databases, nextFileId, nextDocId, delete, getFilesCall, otherVars>>

\* the compensating storage.deleteFile resolves: handleError rethrows the
\* createDocument error, the outer catch logs and rethrows it again
uploadFileCompensate(p) ==
    /\ upload[p].pc = "catch"
    /\ storage' = storage \ {upload[p].bucketFile.id}
    /\ upload' = [upload EXCEPT ![p] =
          LET called == [@ EXCEPT !.deleteFileCalls =
                            Append(@, [fileId |-> upload[p].bucketFile.id,
                                       outcome |-> "resolved"])]
              inner  == handleError(called, upload[p].error,
                                    "Failed to create file document")
          IN  exit(handleError(inner, inner.thrown, "Failed to upload file"))]
    /\ UNCHANGED <<databases, nextFileId, nextDocId, delete, getFilesCall, otherVars>>

\* a .catch handler that ignores the rejection of its storage.deleteFile
uploadFileCompensateFails_swallowed(p) ==
    /\ upload[p].pc = "catch"
    /\ upload' = [upload EXCEPT ![p] =
          LET called == [@ EXCEPT !.deleteFileCalls =
                            Append(@, [fileId |-> upload[p].bucketFile.id,
                                       outcome |-> "rejected"])]
              inner  == handleError(called, upload[p].error,
                                    "Failed to create file document")
          IN  exit(handleError(inner, inner.thrown, "Failed to upload file"))]
    /\ UNCHANGED <<storeVars, delete, getFilesCall, otherVars>>

\* the compensating storage.deleteFile rejects: its error leaves the .catch
\* handler before handleError runs, the outer catch logs and rethrows it
uploadFileCompensateFails(p) ==
    /\ upload[p].pc = "catch"
    /\ upload' = [upload EXCEPT ![p] =
          LET called == [@ EXCEPT !.deleteFileCalls =
                            Append(@, [fileId |-> upload[p].bucketFile.id,
                                       outcome |-> "rejected"])]
          IN  exit(handleError(called, BlobDeleteError, "Failed to upload file"))]
    /\ UNCHANGED <<storeVars, delete, getFilesCall, otherVars>>

\* ------------------------------------------------------------------ deleteFile
\* the ids a caller can pass: those ID.unique() has handed out so far, and 0
\* for an id that names nothing
knownFileIds == 0..(nextFileId - 1)
knownDocIds  == 0..(nextDocId - 1)

\* databases.deleteDocument resolves
deleteFileDeleteDocument(d) ==
    /\ delete[d].pc = "idle"
    /\ started(delete, d)
    /\ \E fileId \in knownDocIds, bucketFileId \in knownFileIds :
         /\ fileId \in DOMAIN databases
         /\ databases' = [id \in DOMAIN databases \ {fileId} |-> databases[id]]
         /\ delete' = [delete EXCEPT ![d] =
               [@ EXCEPT !.pc = "deleteDocumentDone", !.fileId = fileId,
                         !.bucketFileId = bucketFileId, !.deletedFile = TRUE]]
    /\ UNCHANGED <<storage, nextFileId, nextDocId, upload, getFilesCall, otherVars>>

\* databases.deleteDocument rejects: the catch logs and rethrows
deleteFileDeleteDocumentFails(d) ==
    /\ delete[d].pc = "idle"
    /\ started(delete, d)
    /\ \E fileId \in knownDocIds, bucketFileId \in knownFileIds :
         delete' = [delete EXCEPT ![d] =
            handleError([@ EXCEPT !.fileId = fileId, !.bucketFileId = bucketFileId],
                        MetadataDeleteError, "Failed to rename file")]
    /\ UNCHANGED <<storeVars, upload, getFilesCall, otherVars>>

\* deleteFile with the test of deletedFile inverted
deleteFileDeleteFile_inverted(d) ==
    /\ delete[d].pc = "deleteDocumentDone"
    /\ storage' = IF ~delete[d].deletedFile
                  THEN storage \ {delete[d].bucketFileId} ELSE storage
    /\ delete' = [delete EXCEPT ![d] =
                     [@ EXCEPT !.pc = "returned", !.returned = "success"]]
    /\ UNCHANGED <<databases, nextFileId, nextDocId, upload, getFilesCall, otherVars>>

\* if (deletedFile) storage.deleteFile resolves; revalidatePath; return success
deleteFileDeleteFile(d) ==
    /\ delete[d].pc = "deleteDocumentDone"
    /\ storage' = IF delete[d].deletedFile
                  THEN storage \ {delete[d].bucketFileId} ELSE storage
    /\ delete' = [delete EXCEPT ![d] =
                     [@ EXCEPT !.pc = "returned", !.returned = "success"]]
    /\ UNCHANGED <<databases, nextFileId, nextDocId, upload, getFilesCall, otherVars>>

\* storage.deleteFile rejects: the catch logs and rethrows
deleteFileDeleteFileFails(d) ==
    /\ delete[d].pc = "deleteDocumentDone"
    /\ delete[d].deletedFile
    /\ delete' = [delete EXCEPT ![d] =
                     handleError(@, BlobDeleteError, "Failed to rename file")]
    /\ UNCHANGED <<storeVars, upload, getFilesCall, otherVars>>

\* ------------------------------------------------- renameFile, updateFileUsers
\* databases.updateDocument resolves; when it rejects, the catch logs and
\* rethrows and both stores are as they were
\* renameFile that also classifies the new name and stores its type
renameFile_retyped(fileId, name, extension) ==
    /\ fileId \in DOMAIN databases
    /\ databases' = [databases EXCEPT
          ![fileId].name = name \o <<".">> \o extension,
          ![fileId].type = getFileType(name \o <<".">> \o extension).type]
    /\ UNCHANGED <<storage, nextFileId, nextDocId, upload, delete, getFilesCall,
                   otherVars>>

renameFile(fileId, name, extension) ==
    /\ fileId \in DOMAIN databases
    /\ databases' = [databases EXCEPT ![fileId].name = name \o <<".">> \o extension]
    /\ UNCHANGED <<storage, nextFileId, nextDocId, upload, delete, getFilesCall,
                   otherVars>>

updateFileUsers(fileId, emails) ==
    /\ fileId \in DOMAIN databases
    /\ databases' = [databases EXCEPT ![fileId].users = emails]
    /\ UNCHANGED <<storage, nextFileId, nextDocId, upload, delete, getFilesCall,
                   otherVars>>

\* -------------------------------------------------------------------- getFiles
\* getCurrentUser gave a user document and databases.listDocuments resolves
getFiles(currentUser, types, searchText, sort, limit) ==
    /\ getFilesCall.pc = "idle"
    /\ LET queries == createQueries(currentUser, types, searchText, sort, limit)
       IN  getFilesCall' = [getFilesCall EXCEPT
               !.pc = "returned", !.currentUser = currentUser,
               !.args = [types |-> types, searchText |-> searchText,
                         sort |-> sort, limit |-> limit],
               !.queries = queries,
               !.returned = listDocuments(databases, queries)]
    /\ UNCHANGED <<storeVars, upload, delete, otherVars>>

\* getCurrentUser gave no user: throw new Error("User not found")
getFilesNoUser ==
    /\ getFilesCall.pc = "idle"
    /\ getFilesCall' = handleError(getFilesCall, UserNotFound, "Failed to get files")
    /\ UNCHANGED <<storeVars, upload, delete, otherVars>>

\* databases.listDocuments rejects
getFilesListDocumentsFails ==
    /\ getFilesCall.pc = "idle"
    /\ getFilesCall' = handleError(getFilesCall, MetadataReadError, "Failed to get files")
    /\ UNCHANGED <<storeVars, upload, delete, otherVars>>

\* ------------------------------------------------------------------------ Next
Next ==
    \/ \E p \in UploadProcs : uploadFileCreateFile(p)
    \/ \E p \in UploadProcs : uploadFileCreateFileFails(p)
    \/ \E p \in UploadProcs : uploadFileCreateDocument(p)
    \/ \E p \in UploadProcs : uploadFileCreateDocumentFails(p)
    \/ \E p \in UploadProcs : uploadFileCompensate(p)
    \/ \E p \in UploadProcs : uploadFileCompensateFails(p)
    \/ \E d \in DeleteProcs : deleteFileDeleteDocument(d)
    \/ \E d \in DeleteProcs : deleteFileDeleteDocumentFails(d)
    \/ \E d \in DeleteProcs : deleteFileDeleteFile(d)
    \/ \E d \in DeleteProcs : deleteFileDeleteFileFails(d)
    \/ \E fileId \in Ids, a \in RenameArgs : renameFile(fileId, a.name, a.extension)
    \/ \E fileId \in Ids, emails \in EmailLists : updateFileUsers(fileId, emails)

Spec == Init /\ [][Next]_vars

\* concurrent uploadFile executions and nothing else
NextUploads ==
    \/ \E p \in UploadProcs : uploadFileCreateFile(p)
    \/ \E p \in UploadProcs : uploadFileCreateFileFails(p)
    \/ \E p \in UploadProcs : uploadFileCreateDocument(p)
    \/ \E p \in UploadProcs : uploadFileCreateDocumentFails(p)
    \/ \E p \in UploadProcs : uploadFileCompensate(p)
    \/ \E p \in UploadProcs : uploadFileCompensateFails(p)

SpecUploads == Init /\ [][NextUploads]_vars

\* the file actions together with one getFiles call made at any moment
NextFiles ==
    \/ Next
    \/ \E currentUser \in Users, types \in TypeLists, searchText \in SearchTexts,
          sort \in SortStrings, limit \in Limits :
          getFiles(currentUser, types, searchText, sort, limit)
    \/ getFilesNoUser
    \/ getFilesListDocumentsFails

SpecFiles == Init /\ [][NextFiles]_vars

\* ---------------------------------------------------- classification runs
Alphabet == {".", "m", "d", "p", "3", "4", "b", "M", "D", "x"}
FileNames == UNION { [1..n -> Alphabet] : n \in 0..MaxNameLen }

InitClassify ==
    /\ StoresInit
    /\ fileName \in FileNames
    /\ fileType = noFileType
    /\ QueriesIdle
    /\ UsageIdle
    /\ UploaderIdle
    /\ AuthIdle

classify ==
    /\ fileType = noFileType
    /\ fileType' = getFileType(fileName)
    /\ UNCHANGED <<fileVars, fileName, queryVars, usageVars, uploaderVars, authVars>>

NextClassify == classify

SpecClassify == InitClassify /\ [][NextClassify]_vars

\* ------------------------------------------------------ createQueries runs
SortAlphabet == {"a", "s", "c", "-"}
SortArgs   == UNION { [1..n -> SortAlphabet] : n \in 0..MaxSortLen }
TypeArgs   == { <<>>, <<"image">>, <<"image", "video">> }
LimitArgs  == { <<>>, <<0>>, <<2>> }

InitQueries ==
    /\ StoresInit
    /\ fileName = <<>>
    /\ fileType = noFileType
    /\ UsageIdle
    /\ UploaderIdle
    /\ queryArgs \in [currentUser : Users, types : TypeArgs, searchText : SearchTexts,
                      sort : SortArgs, limit : LimitArgs]
    /\ builtQueries = <<>>
    /\ AuthIdle

\* one call of createQueries with the arguments drawn
build ==
    /\ builtQueries = <<>>
    /\ builtQueries' = createQueries(queryArgs.currentUser, queryArgs.types,
                                     queryArgs.searchText, queryArgs.sort,
                                     queryArgs.limit)
    /\ UNCHANGED <<fileVars, classifyVars, queryArgs, usageVars, uploaderVars, authVars>>

NextQueries == build

SpecQueries == InitQueries /\ [][NextQueries]_vars

\* ------------------------------------------------------- getTotalSpaceUsed
\* $updatedAt of a document: an ISO 8601 string as the store writes it
UpdatedAts ==
    { "2024-01-01T00:00:00.000+00:00", "2024-01-02T00:00:00.000+00:00",
      "2024-02-01T00:00:00.000+00:00" }

\* new Date(string): the instant the string denotes, in days since the epoch
Date(str) ==
    CASE str = "2024-01-01T00:00:00.000+00:00" -> 19723
      [] str = "2024-01-02T00:00:00.000+00:00" -> 19724
      [] str = "2024-02-01T00:00:00.000+00:00" -> 19754

\* the documents listDocuments can return: type, size and $updatedAt of each
UsageTypes == {"image", "document", "other"}
UsageSizes == {10, 20}
UsageFiles == [type : UsageTypes, size : UsageSizes, updatedAt : UpdatedAts]
FileLists  == UNION { [1..n -> UsageFiles] : n \in 0..MaxFiles }

\* the totals before the first document; the constant field all is left out
totalSpaceStart ==
    [image    |-> [size |-> 0, latestDate |-> ""],
     document |-> [size |-> 0, latestDate |-> ""],
     video    |-> [size |-> 0, latestDate |-> ""],
     audio    |-> [size |-> 0, latestDate |-> ""],
     other    |-> [size |-> 0, latestDate |-> ""],
     used     |-> 0]

\* the forEach callback without totalSpace.used += file.size
visit_usedNotAdded(totalSpace, file) ==
    LET category == file.type
        summed   == [totalSpace EXCEPT ![category].size = @ + file.size]
        later    == IF summed[category].latestDate = "" THEN TRUE
                    ELSE Date(file.updatedAt) > Date(summed[category].latestDate)
    IN  IF later THEN [summed EXCEPT ![category].latestDate = file.updatedAt]
        ELSE summed

\* the forEach callback without the test around the latestDate assignment
visit_lastWins(totalSpace, file) ==
    LET category == file.type
        summed   == [totalSpace EXCEPT ![category].size = @ + file.size,
                                       !.used = @ + file.size]
    IN  [summed EXCEPT ![category].latestDate = file.updatedAt]

\* the forEach callback: one document added to the totals
visit(totalSpace, file) ==
    LET category == file.type
        summed   == [totalSpace EXCEPT ![category].size = @ + file.size,
                                       !.used = @ + file.size]
        later    == IF summed[category].latestDate = "" THEN TRUE
                    ELSE Date(file.updatedAt) > Date(summed[category].latestDate)
    IN  IF later THEN [summed EXCEPT ![category].latestDate = file.updatedAt]
        ELSE summed

RECURSIVE forEach(_, _)
\* files.documents.forEach: the callback applied to each document in turn
forEach(documents, totalSpace) ==
    IF documents = <<>> THEN totalSpace
    ELSE forEach(Tail(documents), visit(totalSpace, Head(documents)))

NoSession        == "No session"
NotAuthenticated == "User is not authenticated."

InitUsage ==
    /\ StoresInit
    /\ fileName = <<>>
    /\ fileType = noFileType
    /\ QueriesIdle
    /\ UploaderIdle
    /\ usage \in { [idleUsage EXCEPT !.files = files] : files \in FileLists }
    /\ AuthIdle

\* the session client, the current user and listDocuments are all there:
\* the totals of the listed documents are returned
getTotalSpaceUsed ==
    /\ usage.pc = "idle"
    /\ usage' = [usage EXCEPT !.pc = "returned",
                              !.returned = forEach(usage.files, totalSpaceStart)]
    /\ UNCHANGED <<fileVars, classifyVars, queryVars, uploaderVars, authVars>>

\* createSessionClient throws, getCurrentUser gives no user, or listDocuments
\* rejects: the catch logs and rethrows
getTotalSpaceUsedFails ==
    /\ usage.pc = "idle"
    /\ \E error \in {NoSession, NotAuthenticated, MetadataReadError} :
          usage' = handleError(usage, error, "Error calculating total space used:, ")
    /\ UNCHANGED <<fileVars, classifyVars, queryVars, uploaderVars, authVars>>

NextUsage ==
    \/ getTotalSpaceUsed
    \/ getTotalSpaceUsedFails

SpecUsage == InitUsage /\ [][NextUsage]_vars

\* ------------------------------------------------- sessions and sign-in
Emails == {"u1@x.com", "u2@x.com", "u3@x.com"}

AccountGetError    == "AccountGetError"
SessionDeleteError == "SessionDeleteError"
EmailTokenError    == "EmailTokenError"
NextRedirect       == "NEXT_REDIRECT"

\* getUserByEmail: the first user document with the e-mail, or null
getUserByEmail(email) ==
    LET documents == { doc \in usersCollection : doc.email = email }
    IN  IF Cardinality(documents) > 0 THEN CHOOSE doc \in documents : TRUE
        ELSE noDocumentFound

\* what getCurrentUser can give in the current state: the user document of the
\* session's account, null when there is none, or undefined after it caught
\* and logged an error of createSessionClient, account.get or listDocuments
getCurrentUser ==
    IF cookie = <<>>
    THEN { [kind |-> "undefined", document |-> noDocumentFound, logged |-> NoSession] }
    ELSE { [kind |-> "undefined", document |-> noDocumentFound,
            logged |-> AccountGetError] }
         \cup
         IF cookie[1] \in DOMAIN sessions
         THEN { [kind |-> "undefined", document |-> noDocumentFound,
                 logged |-> MetadataReadError] }
              \cup
              LET documents == { doc \in usersCollection :
                                   doc.accountId = sessions[cookie[1]] }
              IN  IF Cardinality(documents) <= 0
                  THEN { [kind |-> "null", document |-> noDocumentFound,
                          logged |-> "none"] }
                  ELSE { [kind |-> "document",
                          document |-> CHOOSE doc \in documents : TRUE,
                          logged |-> "none"] }
         ELSE {}

ProtectedContent == {"Sidebar", "MobileNavigation", "Header", "children"}

\* a layout that redirects only when getCurrentUser gave undefined
layout_undefinedOnly ==
    /\ \E currentUser \in getCurrentUser :
          page' = IF currentUser.kind = "undefined"
                  THEN [outcome |-> "redirect", location |-> "/sign-in",
                        kind |-> currentUser.kind, currentUser |-> noUser,
                        logged |-> currentUser.logged, rendered |-> {}]
                  ELSE [outcome |-> "rendered", location |-> "/",
                        kind |-> currentUser.kind,
                        currentUser |-> currentUser.document,
                        logged |-> currentUser.logged, rendered |-> ProtectedContent]
    /\ UNCHANGED <<fileVars, classifyVars, queryVars, usageVars, uploaderVars, cookie, sessions,
                   nextSecret, usersCollection, otps, signOut, authForm,
                   createAccountCalls>>

\* the root layout: if (!currentUser) return redirect("/sign-in"), else the page
layout ==
    /\ \E currentUser \in getCurrentUser :
          page' = IF currentUser.kind # "document"
                  THEN [outcome |-> "redirect", location |-> "/sign-in",
                        kind |-> currentUser.kind, currentUser |-> noUser,
                        logged |-> currentUser.logged, rendered |-> {}]
                  ELSE [outcome |-> "rendered", location |-> "/",
                        kind |-> currentUser.kind,
                        currentUser |-> currentUser.document,
                        logged |-> currentUser.logged, rendered |-> ProtectedContent]
    /\ UNCHANGED <<fileVars, classifyVars, queryVars, usageVars, uploaderVars, cookie, sessions,
                   nextSecret, usersCollection, otps, signOut, authForm,
                   createAccountCalls>>

\* redirect(url) throws the framework's redirect; thrown in a finally block it
\* takes the place of an error on its way out
redirect(exec, url) ==
    [exec EXCEPT !.thrown = NextRedirect, !.redirect = url, !.pc = "redirected"]

\* signOutUser without the cookie: createSessionClient throws before the try
signOutUserNoSession ==
    /\ cookie = <<>>
    /\ signOut' = [idleSignOut EXCEPT !.pc = "threw", !.thrown = NoSession]
    /\ UNCHANGED <<fileVars, classifyVars, queryVars, usageVars, uploaderVars, cookie, sessions,
                   nextSecret, usersCollection, otps, page, authForm,
                   createAccountCalls>>

\* account.deleteSession("current") resolves: the cookie is deleted, then the
\* finally block redirects
signOutUserDeleteSession ==
    /\ cookie # <<>>
    /\ cookie[1] \in DOMAIN sessions
    /\ sessions' = [secret \in DOMAIN sessions \ {cookie[1]} |-> sessions[secret]]
    /\ cookie' = <<>>
    /\ signOut' = redirect(idleSignOut, "/sign-in")
    /\ UNCHANGED <<fileVars, classifyVars, queryVars, usageVars, uploaderVars, nextSecret,
                   usersCollection, otps, page, authForm,
                   createAccountCalls>>

\* account.deleteSession("current") rejects: the catch logs and rethrows, the
\* finally block redirects; cookies().delete is not reached
signOutUserDeleteSessionFails ==
    /\ cookie # <<>>
    /\ signOut' = redirect(handleError(idleSignOut, SessionDeleteError,
                                       "Failed to sign out user"), "/sign-in")
    /\ UNCHANGED <<fileVars, classifyVars, queryVars, usageVars, uploaderVars, cookie, sessions,
                   nextSecret, usersCollection, otps, page, authForm,
                   createAccountCalls>>

\* signInUser that sends the OTP before it looks the user up
signInUser_otpFirst(email) ==
    LET existingUser == getUserByEmail(email)
    IN  { [pc |-> "threw", otp |-> FALSE, accountId |-> null,
           thrown |-> MetadataReadError] }
        \cup
        IF existingUser # noDocumentFound
        THEN { [pc |-> "returned", otp |-> TRUE,
                accountId |-> existingUser.accountId, thrown |-> "none"],
               [pc |-> "threw", otp |-> FALSE, accountId |-> null,
                thrown |-> EmailTokenError] }
        ELSE { [pc |-> "returned", otp |-> TRUE, accountId |-> null,
                thrown |-> "none"] }

\* the ways signInUser({email}) can end: whether it sent an OTP, and the
\* accountId it returned or the error it logged and threw
signInUser(email) ==
    LET existingUser == getUserByEmail(email)
    IN  { [pc |-> "threw", otp |-> FALSE, accountId |-> null,
           thrown |-> MetadataReadError] }
        \cup
        IF existingUser # noDocumentFound
        THEN { [pc |-> "returned", otp |-> TRUE,
                accountId |-> existingUser.accountId, thrown |-> "none"],
               [pc |-> "threw", otp |-> FALSE, accountId |-> null,
                thrown |-> EmailTokenError] }
        ELSE { [pc |-> "returned", otp |-> FALSE, accountId |-> null,
                thrown |-> "none"] }

\* AuthForm.onSubmit of the sign-in form
onSubmit(email) ==
    /\ \E user \in signInUser(email) :
          /\ otps' = IF user.otp
                     THEN otps \cup {[email |-> email, by |-> "signInUser"]}
                     ELSE otps
          /\ authForm' =
                IF user.pc = "returned"
                THEN [isLoading |-> FALSE, errorMessage |-> "",
                      accountId |-> user.accountId, email |-> email]
                ELSE [isLoading |-> FALSE,
                      errorMessage |-> "Failed to sign in. Please try again later.",
                      accountId |-> authForm.accountId, email |-> email]
    /\ UNCHANGED <<fileVars, classifyVars, queryVars, usageVars, uploaderVars, cookie, sessions,
                   nextSecret, usersCollection, page, signOut,
                   createAccountCalls>>

\* {accountId && <OptModal .../>}: the modal is part of what AuthForm renders
OptModal == authForm.accountId \notin {null, ""}

\* OptModal.handleSubmit, verifySecret resolving: a session is created for the
\* account and its secret is stored in the cookie
verifySecret ==
    /\ OptModal
    /\ nextSecret <= MaxSessions
    /\ sessions' = (nextSecret :> authForm.accountId) @@ sessions
    /\ cookie' = <<nextSecret>>
    /\ nextSecret' = nextSecret + 1
    /\ UNCHANGED <<fileVars, classifyVars, queryVars, usageVars, uploaderVars, usersCollection,
                   otps, page, signOut, authForm,
                   createAccountCalls>>

\* a browser arrives with or without a cookie of an earlier visit, whose
\* session may be gone, and any of the user documents may be missing
InitAuth ==
    /\ StoresInit
    /\ fileName = <<>>
    /\ fileType = noFileType
    /\ QueriesIdle
    /\ UsageIdle
    /\ UploaderIdle
    /\ usersCollection \in SUBSET Users
    /\ \E account \in {null} \cup { user.accountId : user \in Users } :
          /\ sessions = IF account = null THEN <<>> ELSE (0 :> account)
          /\ cookie \in { <<>>, <<0>> }
    /\ nextSecret = 1
    /\ otps = {}
    /\ page = idlePage
    /\ signOut = idleSignOut
    /\ authForm = idleAuthForm
    /\ createAccountCalls = [a \in AccountProcs |-> idleCreateAccount]

NextAuth ==
    \/ layout
    \/ signOutUserNoSession
    \/ signOutUserDeleteSession
    \/ signOutUserDeleteSessionFails
    \/ \E email \in Emails : onSubmit(email)
    \/ verifySecret

SpecAuth == InitAuth /\ [][NextAuth]_vars

\* ------------------------------------------------------------ createAccount
\* the account the account service keeps for an e-mail: createEmailToken gives
\* its id back as session.userId
accountOf(email) ==
    CASE email = "u1@x.com" -> "acc1"
      [] email = "u2@x.com" -> "acc2"
      [] email = "u3@x.com" -> "acc3"

\* ID.unique() for the user document execution a creates
newUserId(a) == ToString(a)

\* getUserByEmail resolves: existingUser is the document found, or null
createAccountGetUserByEmail(a) ==
    /\ createAccountCalls[a].pc = "idle"
    /\ started(createAccountCalls, a)
    /\ \E email \in Emails :
          createAccountCalls' = [createAccountCalls EXCEPT ![a] =
              [@ EXCEPT !.pc = "sendEmailOTP", !.email = email,
                        !.existingUser = getUserByEmail(email)]]
    /\ UNCHANGED <<fileVars, classifyVars, queryVars, usageVars, uploaderVars, cookie, sessions,
                   nextSecret, usersCollection, otps, page, signOut, authForm>>

\* getUserByEmail rejects: createAccount has no try, the error leaves it
createAccountGetUserByEmailFails(a) ==
    /\ createAccountCalls[a].pc = "idle"
    /\ started(createAccountCalls, a)
    /\ \E email \in Emails :
          createAccountCalls' = [createAccountCalls EXCEPT ![a] =
              [@ EXCEPT !.pc = "threw", !.email = email,
                        !.thrown = MetadataReadError]]
    /\ UNCHANGED <<fileVars, classifyVars, queryVars, usageVars, uploaderVars, cookie, sessions,
                   nextSecret, usersCollection, otps, page, signOut, authForm>>

\* sendEmailOTP resolves with the account id; with an existing user document
\* createAccount returns it, without one it goes on to create the document
createAccountSendEmailOTP(a) ==
    /\ createAccountCalls[a].pc = "sendEmailOTP"
    /\ otps' = otps \cup {[email |-> createAccountCalls[a].email,
                            by |-> "createAccount"]}
    /\ LET accountId == accountOf(createAccountCalls[a].email)
       IN  createAccountCalls' = [createAccountCalls EXCEPT ![a] =
               IF createAccountCalls[a].existingUser = noDocumentFound
               THEN [@ EXCEPT !.pc = "createDocument", !.accountId = accountId]
               ELSE [@ EXCEPT !.pc = "returned", !.accountId = accountId,
                              !.returned = accountId]]
    /\ UNCHANGED <<fileVars, classifyVars, queryVars, usageVars, uploaderVars, cookie, sessions,
                   nextSecret, usersCollection, page, signOut, authForm>>

\* account.createEmailToken rejects: sendEmailOTP logs and rethrows
createAccountSendEmailOTPFails(a) ==
    /\ createAccountCalls[a].pc = "sendEmailOTP"
    /\ createAccountCalls' = [createAccountCalls EXCEPT ![a] =
          handleError(@, EmailTokenError, "Failed to send email OTP")]
    /\ UNCHANGED <<fileVars, classifyVars, queryVars, usageVars, uploaderVars, cookie, sessions,
                   nextSecret, usersCollection, otps, page, signOut, authForm>>

\* databases.createDocument resolves: the user document is in the collection
\* and createAccount returns the account id
createAccountCreateDocument(a) ==
    /\ createAccountCalls[a].pc = "createDocument"
    /\ usersCollection' = usersCollection \cup
          {[id |-> newUserId(a), email |-> createAccountCalls[a].email,
            accountId |-> createAccountCalls[a].accountId]}
    /\ createAccountCalls' = [createAccountCalls EXCEPT ![a] =
          [@ EXCEPT !.pc = "returned", !.returned = createAccountCalls[a].accountId]]
    /\ UNCHANGED <<fileVars, classifyVars, queryVars, usageVars, uploaderVars, cookie, sessions,
                   nextSecret, otps, page, signOut, authForm>>

\* databases.createDocument rejects: the error leaves createAccount
createAccountCreateDocumentFails(a) ==
    /\ createAccountCalls[a].pc = "createDocument"
    /\ createAccountCalls' = [createAccountCalls EXCEPT ![a] =
          [@ EXCEPT !.pc = "threw", !.thrown = MetadataWriteError]]
    /\ UNCHANGED <<fileVars, classifyVars, queryVars, usageVars, uploaderVars, cookie, sessions,
                   nextSecret, usersCollection, otps, page, signOut, authForm>>

\* some of the users have signed up before
InitAccounts ==
    /\ StoresInit
    /\ fileName = <<>>
    /\ fileType = noFileType
    /\ QueriesIdle
    /\ UsageIdle
    /\ UploaderIdle
    /\ cookie = <<>>
    /\ sessions = <<>>
    /\ nextSecret = 1
    /\ usersCollection \in SUBSET Users
    /\ otps = {}
    /\ page = idlePage
    /\ signOut = idleSignOut
    /\ authForm = idleAuthForm
    /\ createAccountCalls = [a \in AccountProcs |-> idleCreateAccount]

NextAccounts ==
    \/ \E a \in AccountProcs : createAccountGetUserByEmail(a)
    \/ \E a \in AccountProcs : createAccountGetUserByEmailFails(a)
    \/ \E a \in AccountProcs : createAccountSendEmailOTP(a)
    \/ \E a \in AccountProcs : createAccountSendEmailOTPFails(a)
    \/ \E a \in AccountProcs : createAccountCreateDocument(a)
    \/ \E a \in AccountProcs : createAccountCreateDocumentFails(a)

SpecAccounts == InitAccounts /\ [][NextAccounts]_vars

\* ------------------------------------------------------ FileUploader.onDrop
\* the limit the toast states as 50MB
MAX_FILE_SIZE == 50 * 1024 * 1024

\* the files a user can drop; two files of a drop may have the same name
DroppedFiles ==
    [name : {"a.pdf", "b.JPG"}, size : {10, MAX_FILE_SIZE, MAX_FILE_SIZE + 1}]
AcceptedFiles == UNION { [1..n -> DroppedFiles] : n \in 0..MaxDropped }

\* prevFiles.filter((f) => f.name !== name), the pending list holding the
\* positions of the files in acceptedFiles
filterByName(prevFiles, acceptedFiles, name) ==
    SelectSeq(prevFiles, LAMBDA i : acceptedFiles[i].name # name)

RECURSIVE mapFiles(_, _, _)
\* acceptedFiles.map(async (file) => ...) up to the first await of each
\* callback, from position i on: a file over the limit is filtered out of the
\* pending list and reported by a toast, for any other file uploadFile is called
mapFiles(state, acceptedFiles, i) ==
    IF i > Len(acceptedFiles) THEN state
    ELSE LET file == acceptedFiles[i]
             next ==
                 IF file.size > MAX_FILE_SIZE
                 THEN [state EXCEPT
                          !.files = filterByName(@, acceptedFiles, file.name),
                          !.toasts = Append(@, file.name),
                          !.uploadFileCalls = Append(@, [calls |-> 0,
                                                         outcome |-> "none"])]
                 ELSE [state EXCEPT
                          !.uploadFileCalls = Append(@, [calls |-> 1,
                                                         outcome |-> "pending"])]
         IN  mapFiles(next, acceptedFiles, i + 1)

\* the user drops files: setFiles(acceptedFiles), then the map
onDrop(acceptedFiles) ==
    /\ uploader.pc = "idle"
    /\ uploader' = mapFiles([idleUploader EXCEPT
                                !.pc = "awaiting", !.acceptedFiles = acceptedFiles,
                                !.files = [i \in 1..Len(acceptedFiles) |-> i]],
                            acceptedFiles, 1)
    /\ UNCHANGED <<fileVars, classifyVars, queryVars, usageVars, authVars>>

\* the uploadFile call for the file at position i resolves with the document:
\* the .then callback filters the pending list by the file's name
onDropUploadReturns(i) ==
    /\ uploader.pc = "awaiting"
    /\ i \in 1..Len(uploader.uploadFileCalls)
    /\ uploader.uploadFileCalls[i].outcome = "pending"
    /\ uploader' = [uploader EXCEPT
          !.uploadFileCalls[i].outcome = "returned",
          !.files = filterByName(@, uploader.acceptedFiles,
                                 uploader.acceptedFiles[i].name)]
    /\ UNCHANGED <<fileVars, classifyVars, queryVars, usageVars, authVars>>

\* the uploadFile call for the file at position i rejects: the .then callback
\* is skipped and Promise.all rejects with the error
onDropUploadThrows(i) ==
    /\ uploader.pc = "awaiting"
    /\ i \in 1..Len(uploader.uploadFileCalls)
    /\ uploader.uploadFileCalls[i].outcome = "pending"
    /\ uploader' = [uploader EXCEPT
          !.uploadFileCalls[i].outcome = "threw",
          !.thrown = IF @ = "none" THEN BlobWriteError ELSE @]
    /\ UNCHANGED <<fileVars, classifyVars, queryVars, usageVars, authVars>>

NextUploader ==
    \/ \E acceptedFiles \in AcceptedFiles : onDrop(acceptedFiles)
    \/ \E i \in 1..MaxDropped : onDropUploadReturns(i)
    \/ \E i \in 1..MaxDropped : onDropUploadThrows(i)

SpecUploader == Init /\ [][NextUploader]_vars

\* ====================================================================== claims
finished(exec) == exec.pc \in {"returned", "threw"}

\* the createDocument of execution p was rejected
insertFailed(p) == upload[p].error = MetadataWriteError

\* error e reached the caller of execution p: thrown to it or written to its log
surfaced(p, e) ==
    \/ upload[p].thrown = e
    \/ \E i \in 1..Len(upload[p].log) : upload[p].log[i][1] = e

\* C1: an uploadFile execution that stored its blob and whose createDocument was
\* rejected has, when it ends, called storage.deleteFile exactly once, on the
\* blob it stored; before the rejection it has called it not at all.
C1_OneCompensatingDelete ==
    \A p \in UploadProcs :
        /\ (finished(upload[p]) /\ insertFailed(p)) =>
               /\ Len(upload[p].deleteFileCalls) = 1
               /\ upload[p].deleteFileCalls[1].fileId = upload[p].bucketFile.id
               /\ upload[p].bucketFile.id # 0
        /\ ~finished(upload[p]) => upload[p].deleteFileCalls = <<>>

C1_Witness ==
    \E p \in UploadProcs :
        /\ upload[p].pc = "threw"
        /\ insertFailed(p)
        /\ Len(upload[p].deleteFileCalls) = 1

\* C2: every document of the files collection names, in bucketFileId, a blob
\* that is in the bucket.
C2_RecordsReferenceBlobs ==
    \A id \in DOMAIN databases : databases[id].bucketFileId \in storage

C4_DeletedOrWarned ==
    \A p \in UploadProcs :
        (finished(upload[p]) /\ insertFailed(p)) =>
            /\ upload[p].pc = "threw"
            /\ \/ upload[p].bucketFile.id \notin storage
               \/ /\ upload[p].thrown = BlobDeleteError
                  /\ \E i \in 1..Len(upload[p].log) :
                         upload[p].log[i][1] = BlobDeleteError
                  /\ BlobDeleteError # upload[p].error

C4_Witness ==
    \E p \in UploadProcs :
        /\ upload[p].pc = "threw"
        /\ insertFailed(p)
        /\ upload[p].bucketFile.id \in storage
        /\ upload[p].thrown = BlobDeleteError

\* C5: when createDocument was rejected and the compensating storage.deleteFile
\* was rejected too, both the createDocument error and the delete error reach
\* the caller.
C5_BothErrorsSurfaced ==
    \A p \in UploadProcs :
        ( /\ finished(upload[p])
          /\ insertFailed(p)
          /\ \E i \in 1..Len(upload[p].deleteFileCalls) :
                 upload[p].deleteFileCalls[i].outcome = "rejected" ) =>
            /\ surfaced(p, MetadataWriteError)
            /\ surfaced(p, BlobDeleteError)

\* C7: once deleteFile has returned success, the document named by its fileId is
\* not in the collection and the blob named by its bucketFileId is not in the
\* bucket; in particular both are gone for the uploaded file whose ids the call
\* was given.
C7_DeletedBoth ==
    \A d \in DeleteProcs :
        delete[d].pc = "returned" =>
            /\ delete[d].returned = "success"
            /\ delete[d].fileId \notin DOMAIN databases
            /\ delete[d].bucketFileId \notin storage
            /\ \A p \in UploadProcs :
                   ( /\ upload[p].returned.id = delete[d].fileId
                     /\ upload[p].bucketFile.id = delete[d].bucketFileId ) =>
                       /\ upload[p].returned.id \notin DOMAIN databases
                       /\ upload[p].bucketFile.id \notin storage

C7_Witness ==
    \E d \in DeleteProcs, p \in UploadProcs :
        /\ delete[d].pc = "returned"
        /\ upload[p].pc = "returned"
        /\ upload[p].returned.id = delete[d].fileId
        /\ upload[p].returned.bucketFileId = delete[d].bucketFileId

\* a getFiles call with default types, empty search text and no limit
defaultArgs(args) == args.types = <<>> /\ args.searchText = <<>> /\ args.limit = <<>>

\* C6: when getFiles, called by user u with default types, empty search text
\* and no limit, returns, its result contains the document of every uploadFile
\* execution that has returned for ownerId u and whose document has not been
\* deleted.
C6_UploadedIsListed ==
    [][ ( /\ getFilesCall.pc = "idle"
          /\ getFilesCall'.pc = "returned"
          /\ defaultArgs(getFilesCall'.args) ) =>
            \A p \in UploadProcs :
                ( /\ upload[p].pc = "returned"
                  /\ upload[p].ownerId = getFilesCall'.currentUser.id
                  /\ upload[p].returned.id \in DOMAIN databases ) =>
                    \E i \in 1..Len(getFilesCall'.returned) :
                        getFilesCall'.returned[i].id = upload[p].returned.id
      ]_vars

C6_Witness ==
    /\ getFilesCall.pc = "returned"
    /\ defaultArgs(getFilesCall.args)
    /\ \E p \in UploadProcs :
           /\ upload[p].pc = "returned"
           /\ upload[p].ownerId = getFilesCall.currentUser.id
           /\ \E i \in 1..Len(getFilesCall.returned) :
                  getFilesCall.returned[i].id = upload[p].returned.id

\* owner == user.$id OR user.email in users
accessPredicate(user) ==
    [method |-> "or", attribute |-> "",
     values |-> << [method |-> "equal", attribute |-> "owner", values |-> <<user.id>>],
                   [method |-> "contains", attribute |-> "users",
                    values |-> <<user.email>>] >>]

\* C8: whatever types, searchText, sort and limit getFiles was called with, the
\* predicate list it built contains the owner-or-shared predicate of the current
\* user, and every document it returned is owned by the current user or lists
\* the current user's e-mail in users.
C8_OnlyOwnedOrShared ==
    getFilesCall.pc = "returned" =>
        /\ \E i \in 1..Len(getFilesCall.queries) :
               getFilesCall.queries[i] = accessPredicate(getFilesCall.currentUser)
        /\ \A i \in 1..Len(getFilesCall.returned) :
               \/ getFilesCall.returned[i].owner = getFilesCall.currentUser.id
               \/ getFilesCall.currentUser.email \in Range(getFilesCall.returned[i].users)

C8_Witness ==
    /\ getFilesCall.pc = "returned"
    /\ getFilesCall.args.types # <<>>
    /\ getFilesCall.args.limit # <<>>
    /\ Len(getFilesCall.returned) > 0
    /\ \E id \in DOMAIN databases :
           /\ databases[id].owner # getFilesCall.currentUser.id
           /\ getFilesCall.currentUser.email \notin Range(databases[id].users)
           /\ databases[id].type \in Range(getFilesCall.args.types)

hasDot(name) == \E i \in 1..Len(name) : name[i] = "."

\* C9: a file name without '.' is classified as type "other" with the empty
\* extension.
C9_NoExtensionIsOther ==
    (fileType # noFileType /\ ~hasDot(fileName)) =>
        fileType = [type |-> "other", extension |-> <<>>]

FileTypes == {"document", "image", "video", "audio", "other"}

\* the text after the last '.' (all of the name when it has no '.')
textAfterLastDot(name) ==
    LET dots == { i \in 1..Len(name) : name[i] = "." }
        last == IF dots = {} THEN 0
                ELSE CHOOSE i \in dots : \A j \in dots : j <= i
    IN  [k \in 1..(Len(name) - last) |-> name[last + k]]

\* the category whose table lists the extension
typeOfExtension(extension) ==
    CASE extension \in documentExtensions -> "document"
      [] extension \in imageExtensions    -> "image"
      [] extension \in videoExtensions    -> "video"
      [] extension \in audioExtensions    -> "audio"
      [] OTHER                            -> "other"

built == builtQueries # <<>>

orderings == SelectSeq(builtQueries, isOrder)
caps      == SelectSeq(builtQueries, LAMBDA q : q.method = "limit")
typeTests == SelectSeq(builtQueries,
                       LAMBDA q : q.method = "equal" /\ q.attribute = "type")
nameTests == SelectSeq(builtQueries,
                       LAMBDA q : q.method = "contains" /\ q.attribute = "name")

dashes(sort) == { i \in 1..Len(sort) : sort[i] = "-" }
lastDash(sort) == CHOOSE i \in dashes(sort) : \A j \in dashes(sort) : j <= i
beforeLastDash(sort) == SubSeq(sort, 1, lastDash(sort) - 1)
afterLastDash(sort)  == SubSeq(sort, lastDash(sort) + 1, Len(sort))

\* C11: for a sort string with a '-', the one ordering predicate is on the text
\* before the last '-' and is ascending exactly when the text after the last
\* '-' is "asc".
C11_SplitsOnLastDash ==
    (built /\ dashes(queryArgs.sort) # {}) =>
        /\ Len(orderings) = 1
        /\ orderings[1].attribute = beforeLastDash(queryArgs.sort)
        /\ orderings[1].method =
               IF afterLastDash(queryArgs.sort) = <<"a", "s", "c">>
               THEN "orderAsc" ELSE "orderDesc"

\* C12: for a non-empty sort string with at most one '-', there is exactly one
\* ordering predicate; it is on the text before the '-' (all of the string
\* when there is none), ascending when the text after the '-' is exactly "asc"
\* and descending for any other or no direction.
C12_AscOnlyWhenAsc ==
    LET sort  == queryArgs.sort
        field == IF dashes(sort) = {} THEN sort ELSE beforeLastDash(sort)
        asc   == IF dashes(sort) = {} THEN FALSE
                 ELSE afterLastDash(sort) = <<"a", "s", "c">>
    IN  (built /\ sort # <<>> /\ Cardinality(dashes(sort)) <= 1) =>
            /\ Len(orderings) = 1
            /\ orderings[1].attribute = field
            /\ orderings[1].method = IF asc THEN "orderAsc" ELSE "orderDesc"

C12_Witness ==
    /\ queryArgs.sort = <<"s", "-", "a", "s", "c">>
    /\ Len(orderings) = 1
    /\ orderings[1] = [method |-> "orderAsc", attribute |-> <<"s">>, values |-> <<>>]

\* C13: the predicate list holds one cap, equal to limit, whenever a limit was
\* given, 0 included, and no cap when limit is absent.
C13_CapWheneverGiven ==
    built =>
        IF queryArgs.limit = <<>> THEN caps = <<>>
        ELSE /\ Len(caps) = 1
             /\ caps[1].values = queryArgs.limit

\* C14: the predicate list holds a type-inclusion predicate, on exactly the
\* given types, if and only if types is non-empty, and a name-contains
\* predicate on searchText if and only if searchText is non-empty.
C14_TypeAndNamePredicates ==
    built =>
        /\ IF queryArgs.types # <<>>
           THEN /\ Len(typeTests) = 1
                /\ typeTests[1].values = queryArgs.types
           ELSE typeTests = <<>>
        /\ IF queryArgs.searchText # <<>>
           THEN /\ Len(nameTests) = 1
                /\ nameTests[1].values = <<queryArgs.searchText>>
           ELSE nameTests = <<>>

C14_Witness ==
    /\ queryArgs.types = <<"image", "video">>
    /\ queryArgs.searchText = <<"a">>
    /\ Len(typeTests) = 1
    /\ Len(nameTests) = 1

\* ------------------------------------------------------ getTotalSpaceUsed
RECURSIVE sizeOf(_, _)
\* the sum of the sizes of the files whose type is one of types
sizeOf(files, types) ==
    IF files = <<>> THEN 0
    ELSE (IF Head(files).type \in types THEN Head(files).size ELSE 0)
         + sizeOf(Tail(files), types)

\* C15: in the totals getTotalSpaceUsed returns, each category's size is the
\* sum of the sizes of the listed files of that type, used is the sum of all
\* sizes and so of the five category sizes, and for an empty list every size
\* and used are 0 and every latestDate is the empty string.
C15_SizesAreSums ==
    usage.pc = "returned" =>
        LET total == usage.returned
        IN  /\ \A t \in FileTypes : total[t].size = sizeOf(usage.files, {t})
            /\ total.used = sizeOf(usage.files, FileTypes)
            /\ total.used = total.image.size + total.document.size
                             + total.video.size + total.audio.size + total.other.size
            /\ usage.files = <<>> =>
                   /\ total.used = 0
                   /\ \A t \in FileTypes :
                          total[t].size = 0 /\ total[t].latestDate = ""

C15_Witness ==
    /\ usage.pc = "returned"
    /\ Len(usage.files) = 3
    /\ usage.returned.image.size = 30
    /\ usage.returned.other.size = 20
    /\ usage.returned.used = 50

\* the orders the same records can be visited in
Orders(n) ==
    { perm \in [1..n -> 1..n] : \A i, j \in 1..n : perm[i] = perm[j] => i = j }

\* the greatest $updatedAt among the files of type t, "" when there is none
latestOf(files, t) ==
    LET ofType == { i \in 1..Len(files) : files[i].type = t }
    IN  IF ofType = {} THEN ""
        ELSE files[CHOOSE i \in ofType :
                      \A j \in ofType :
                          Date(files[j].updatedAt) <= Date(files[i].updatedAt)].updatedAt

\* C16: the totals getTotalSpaceUsed returns are those of every permutation of
\* the listed files, and each category's latestDate is the greatest $updatedAt
\* among the files of that category.
C16_OrderIndependent ==
    usage.pc = "returned" =>
        /\ \A perm \in Orders(Len(usage.files)) :
               forEach([i \in 1..Len(usage.files) |-> usage.files[perm[i]]],
                       totalSpaceStart) = usage.returned
        /\ \A t \in FileTypes :
               usage.returned[t].latestDate = latestOf(usage.files, t)

C16_Witness ==
    /\ usage.pc = "returned"
    /\ Len(usage.files) = 3
    /\ usage.files[1].type = usage.files[2].type
    /\ Date(usage.files[1].updatedAt) > Date(usage.files[2].updatedAt)
    /\ Date(usage.files[1].updatedAt) > Date(usage.files[3].updatedAt)
    /\ usage.returned[usage.files[1].type].latestDate = usage.files[1].updatedAt

\* ------------------------------------------------ renameFile, updateFileUsers
\* between this state and the next, nothing but the given fields of document
\* fileId has changed in the two stores
onlyChanged(fileId, fields) ==
    /\ storage' = storage
    /\ DOMAIN databases' = DOMAIN databases
    /\ \A id \in DOMAIN databases \ {fileId} : databases'[id] = databases[id]
    /\ DOMAIN databases'[fileId] = DOMAIN databases[fileId]
    /\ \A f \in DOMAIN databases[fileId] \ fields :
           databases'[fileId][f] = databases[fileId][f]

\* C17: a renameFile step changes nothing but the name and extension of the
\* document it names, an updateFileUsers step nothing but its users, which
\* become the e-mails given; bucketFileId, owner, accountId, size and type of
\* that document, every other document and the bucket stay as they were.
C17_RenameShareFrame ==
    [][ \A fileId \in Ids :
          /\ (\E a \in RenameArgs : renameFile(fileId, a.name, a.extension)) =>
                 /\ onlyChanged(fileId, {"name", "extension"})
                 /\ \A f \in {"bucketFileId", "owner", "accountId", "size", "type"} :
                        databases'[fileId][f] = databases[fileId][f]
          /\ \A emails \in EmailLists :
                 updateFileUsers(fileId, emails) =>
                     /\ onlyChanged(fileId, {"users"})
                     /\ databases'[fileId].users = emails
                     /\ \A f \in {"bucketFileId", "owner", "accountId", "size", "type"} :
                            databases'[fileId][f] = databases[fileId][f]
      ]_vars

C17_Witness ==
    \E p \in UploadProcs :
        /\ upload[p].pc = "returned"
        /\ upload[p].returned.id \in DOMAIN databases
        /\ databases[upload[p].returned.id].name # upload[p].returned.name
        /\ databases[upload[p].returned.id].users # upload[p].returned.users
        /\ databases[upload[p].returned.id].type = upload[p].returned.type
        /\ databases[upload[p].returned.id].bucketFileId = upload[p].bucketFile.id

\* ------------------------------------------------------ sessions and sign-in
\* C18: the protected content is rendered only when getCurrentUser gave a user
\* document; when it gave none (no session cookie, a failed account or
\* document lookup, or no matching user document) the outcome is a redirect
\* to /sign-in and nothing of the protected content is rendered.
C18_RenderOnlyWithUser ==
    /\ page.outcome = "rendered" =>
           /\ page.kind = "document"
           /\ page.currentUser \in usersCollection
    /\ page.rendered # {} => page.outcome = "rendered"
    /\ (page.outcome # "none" /\ page.kind # "document") =>
           /\ page.outcome = "redirect"
           /\ page.location = "/sign-in"
           /\ page.rendered = {}
    /\ page.logged \in {NoSession, AccountGetError, MetadataReadError} =>
           page.outcome = "redirect"

C18_Witness ==
    /\ cookie # <<>>
    /\ page.outcome = "redirect"
    /\ page.location = "/sign-in"
    /\ page.kind = "null"

\* a signOutUser call is made and ends in this step
signOutUserEnds ==
    \/ signOutUserNoSession
    \/ signOutUserDeleteSession
    \/ signOutUserDeleteSessionFails

\* C19: every signOutUser call ends with the appwrite-session cookie gone and
\* a redirect to /sign-in, also when there was no session cookie and when
\* deleting the remote session failed.
C19_SignOutClearsAndRedirects ==
    [][ signOutUserEnds =>
            /\ cookie' = <<>>
            /\ signOut'.redirect = "/sign-in"
      ]_vars

\* a user document with the e-mail exists
known(email) == \E doc \in usersCollection : doc.email = email

\* C20: a sign-in submission sends an OTP only for an e-mail that has a user
\* document; for an unknown e-mail no OTP is sent, the accountId returned and
\* stored is null and the OTP modal is not shown; whenever the modal is shown
\* after a submission, the stored accountId is that of a user document.
C20_OtpOnlyForKnownEmail ==
    [][ \A email \in Emails :
          onSubmit(email) =>
              /\ otps' # otps => known(email)
              /\ ~known(email) =>
                     /\ otps' = otps
                     /\ authForm'.errorMessage = "" =>
                            /\ authForm'.accountId = null
                            /\ ~OptModal'
              /\ OptModal' =>
                     /\ authForm'.accountId # null
                     /\ \E doc \in usersCollection :
                            doc.accountId = authForm'.accountId
      ]_vars

C20_Witness ==
    /\ \E otp \in otps : otp.by = "signInUser" /\ known(otp.email)
    /\ ~known(authForm.email)
    /\ authForm.email \in Emails
    /\ authForm.errorMessage = ""
    /\ authForm.accountId = null
    /\ ~OptModal

\* ------------------------------------------------------------- uploadFile
\* C21: when storage.createFile is rejected, uploadFile throws that error
\* having attempted neither the createDocument nor a storage.deleteFile, and
\* the bucket, the files collection and the id counters are as before the call.
C21_BlobWriteFailureChangesNothing ==
    [][ \A p \in UploadProcs :
          uploadFileCreateFileFails(p) =>
              /\ upload'[p].pc = "threw"
              /\ upload'[p].thrown = BlobWriteError
              /\ upload'[p].returned = noDocument
              /\ upload'[p].bucketFile = noBucketFile
              /\ upload'[p].error = "none"
              /\ upload'[p].deleteFileCalls = <<>>
              /\ storage' = storage
              /\ databases' = databases
              /\ nextFileId' = nextFileId
              /\ nextDocId' = nextDocId
      ]_vars

C21_Witness ==
    \E p, q \in UploadProcs :
        /\ upload[p].pc = "threw"
        /\ upload[p].thrown = BlobWriteError
        /\ upload[p].deleteFileCalls = <<>>
        /\ upload[q].pc = "returned"
        /\ upload[q].bucketFile.id \in storage
        /\ upload[q].returned.id \in DOMAIN databases

\* C22: under every interleaving of uploadFile executions, an execution asks
\* the blob store to delete only the blob it created itself, no two executions
\* created the same blob or document, and every execution that returned finds
\* its own blob in the bucket and its own document in the collection.
C22_UploadsDoNotInterfere ==
    /\ \A p \in UploadProcs :
           \A i \in 1..Len(upload[p].deleteFileCalls) :
               /\ upload[p].bucketFile.id # 0
               /\ upload[p].deleteFileCalls[i].fileId = upload[p].bucketFile.id
    /\ \A p, q \in UploadProcs :
           (p # q /\ upload[p].bucketFile.id # 0) =>
               /\ upload[p].bucketFile.id # upload[q].bucketFile.id
               /\ (upload[p].pc = "returned" /\ upload[q].pc = "returned") =>
                      upload[p].returned.id # upload[q].returned.id
    /\ \A p \in UploadProcs :
           upload[p].pc = "returned" =>
               /\ upload[p].bucketFile.id \in storage
               /\ upload[p].returned.id \in DOMAIN databases
               /\ databases[upload[p].returned.id] = upload[p].returned
               /\ upload[p].returned.bucketFileId = upload[p].bucketFile.id

C22_Witness ==
    \E p, q \in UploadProcs :
        /\ upload[p].pc = "threw"
        /\ insertFailed(p)
        /\ upload[p].bucketFile.id \notin storage
        /\ upload[q].pc = "returned"
        /\ upload[q].bucketFile.id > upload[p].bucketFile.id
        /\ upload[q].bucketFile.id \in storage

C24_OneUserDocumentPerEmail ==
    \A email \in Emails :
        Cardinality({ doc \in usersCollection : doc.email = email }) <= 1

\* ------------------------------------------------- renameFile and the type
\* C25: every document of the files collection has the type and the extension
\* getFileType gives for the document's current name.
C25_TypeFollowsName ==
    \A id \in DOMAIN databases :
        /\ databases[id].type = getFileType(databases[id].name).type
        /\ databases[id].extension = getFileType(databases[id].name).extension

\* ------------------------------------------------------ FileUploader.onDrop
\* C26: after a drop, uploadFile was never called for a file larger than
\* MAX_FILE_SIZE, such a file is not in the pending list and a toast names it;
\* for every other file uploadFile was called exactly once, and the file is
\* out of the pending list only if its upload has returned.
C26_OnDropSizeLimit ==
    uploader.pc # "idle" =>
        \A i \in 1..Len(uploader.acceptedFiles) :
            LET file    == uploader.acceptedFiles[i]
                pending == i \in Range(uploader.files)
            IN  IF file.size > MAX_FILE_SIZE
                THEN /\ uploader.uploadFileCalls[i].calls = 0
                     /\ ~pending
                     /\ file.name \in Range(uploader.toasts)
                ELSE /\ uploader.uploadFileCalls[i].calls = 1
                     /\ ~pending => uploader.uploadFileCalls[i].outcome = "returned"

====
